---- MODULE Spec2Model ----
(***************************************************************************)
(* Model of the two scripts of the repository:                             *)
(*   scripts/fix-translations.py  (the Translation Patcher)                *)
(*   scripts/resize-logos.py      (the Logo Resizer)                       *)
(*                                                                         *)
(* Python strings are sequences of characters; a character is a TLA+       *)
(* string used as an atom.  A dict is a record; a missing key is a missing *)
(* field.                                                                  *)
(***************************************************************************)
EXTENDS Integers, Sequences, FiniteSets, TLC

VARIABLES
    \* ---- Translation Patcher: the world outside the process
    environ_key,          \* OPENAI_API_KEY is set and non-empty
    openai_installed,     \* "from openai import OpenAI" succeeds
    service,              \* how the translation service answers
    raw_tweets_json,      \* content of data/raw_tweets.json
    analyze_output_json,  \* content of data/analyze_output.json
    run,                  \* number of the current invocation of the script
    prev,                 \* what the previous invocation computed
    \* ---- Translation Patcher: the process
    pc,
    raw,
    analyzed,
    analyzed_map,
    tweets_to_translate,
    texts,
    translations,
    events,               \* what the run did to the outside, in order
    stdout,               \* what the run printed
    exit_code,
    \* ---- translation cleaning on its own
    seg,
    cleaned,
    \* ---- Logo Resizer
    logo_png,             \* the source file logo.png
    public_exists,        \* the directory public/ exists
    public_files,         \* file name -> file, for the files of public/
    lpc,
    lrun,
    logo,
    sidebar,
    login,
    favicon_16,
    favicon_32,
    apple_touch,
    saved                 \* names of the files this run wrote, in order

patcher_vars == <<environ_key, openai_installed, service, raw_tweets_json,
                  analyze_output_json, run, prev, pc, raw, analyzed,
                  analyzed_map, tweets_to_translate, texts, translations,
                  events, stdout, exit_code>>
clean_vars == <<seg, cleaned>>
logo_vars == <<logo_png, public_exists, public_files, lpc, lrun, logo, sidebar,
               login, favicon_16, favicon_32, apple_touch, saved>>
vars == <<patcher_vars, clean_vars, logo_vars>>

(***************************************************************************)
(* Bounds of the model.                                                    *)
(***************************************************************************)
MaxTweets == 1        \* tweets drawn freely, after the uniform block
MaxItems == 2         \* analysis records drawn freely
MaxTweetsTwice == 1   \* the same two, for the runs that are repeated
MaxItemsTwice == 1
MaxRuns == 2          \* invocations in a row
MaxSegLen == 4        \* characters of a response segment cleaned on its own
MaxSrc == 3           \* side of the source image, in pixels

(***************************************************************************)
(* Python string primitives.                                               *)
(***************************************************************************)
NL == "\n"
Whitespace == {" ", NL}

Min(a, b) == IF a <= b THEN a ELSE b

\* Body(value), the value computed once: TLC evaluates the element of a
\* singleton before it binds it, and an operator argument each time it is used
Bind(value, Body(_)) == CHOOSE result \in {Body(v) : v \in {value}} : TRUE

\* s[a:] for a 1-based first position a
Tail_From(s, a) == SubSeq(s, a, Len(s))

RECURSIVE lstrip(_)
lstrip(s) ==
    IF s # <<>> /\ Head(s) \in Whitespace THEN lstrip(Tail(s)) ELSE s

RECURSIVE rstrip(_)
rstrip(s) ==
    IF s # <<>> /\ s[Len(s)] \in Whitespace
    THEN rstrip(SubSeq(s, 1, Len(s) - 1))
    ELSE s

\* str.strip()
strip(s) == rstrip(lstrip(s))

\* str.startswith(c) for a single character c
startswith(s, c) == s # <<>> /\ Head(s) = c

\* c in s
contains(s, c) == \E k \in 1..Len(s) : s[k] = c

\* s.split(c, 1) for a single character c: at most one cut, at the first c
RECURSIVE split_once_at(_, _, _)
split_once_at(s, c, k) ==
    IF k > Len(s) THEN <<s>>
    ELSE IF s[k] = c THEN <<SubSeq(s, 1, k - 1), Tail_From(s, k + 1)>>
    ELSE split_once_at(s, c, k + 1)

split_once(s, c) == split_once_at(s, c, 1)

\* s.find('\n\n', start), 1-based; 0 when there is no blank line from start on
find_blank(s, start) ==
    LET hits == {k \in start..(Len(s) - 1) : s[k] = NL /\ s[k + 1] = NL} IN
    IF hits = {} THEN 0 ELSE CHOOSE k \in hits : \A j \in hits : k <= j

\* s.split('\n\n'): cut at each blank line, found from the left
RECURSIVE split_blank_from(_, _)
split_blank_from(s, start) ==
    Bind(find_blank(s, start),
         LAMBDA k : IF k = 0 THEN <<SubSeq(s, start, Len(s))>>
                    ELSE <<SubSeq(s, start, k - 1)>> \o split_blank_from(s, k + 2))

split_blank(s) == split_blank_from(s, 1)

\* '\n\n'.join(parts)
RECURSIVE join_blank_from(_, _)
join_blank_from(parts, k) ==
    IF k > Len(parts) THEN <<>>
    ELSE IF k = Len(parts) THEN parts[k]
    ELSE parts[k] \o <<NL, NL>> \o join_blank_from(parts, k + 1)

join_blank(parts) == join_blank_from(parts, 1)

(***************************************************************************)
(* Translation Patcher: the pure parts of the module body.                 *)
(***************************************************************************)
BatchLimit == 20

\* mutant: the text after the "]" is not stripped again
clean_translation_no_strip(s) ==
    LET translation == strip(s) IN
    IF startswith(translation, "[")
    THEN IF contains(translation, "]")
         THEN split_once(translation, "]")[2]
         ELSE translation
    ELSE translation

\* lines 60-63: strip, then drop a leading "[N]" when there is a "]"
clean_translation(s) ==
    LET translation == strip(s) IN
    IF startswith(translation, "[")
    THEN IF contains(translation, "]")
         THEN strip(split_once(translation, "]")[2])
         ELSE translation
    ELSE translation

\* line 24: {item['id']: item for item in analyzed['items']}; the value kept is
\* the position of the item, which stands for the reference to it.  A later
\* item with the same id replaces an earlier one.
RECURSIVE map_upto(_, _)
map_upto(items, k) ==
    IF k = 0 THEN [x \in {} |-> 0]
    ELSE (items[k].id :> k) @@ map_upto(items, k - 1)

build_analyzed_map(items) == map_upto(items, Len(items))

\* item.get('translation', '')
get_translation(item) ==
    IF "translation" \in DOMAIN item THEN item.translation ELSE <<>>

\* lines 29-31: the test a tweet passes to enter tweets_to_translate
needs_translation(tweet, amap, items) ==
    /\ tweet.lang = "en"
    /\ \/ tweet.id \notin DOMAIN amap
       \/ get_translation(items[amap[tweet.id]]) = <<>>

\* lines 27-32
find_tweets_to_translate(tweets, amap, items) ==
    SelectSeq(tweets, LAMBDA tweet : needs_translation(tweet, amap, items))

\* mutant: the cut is one entry late
batch_one_more(worklist) == SubSeq(worklist, 1, Min(BatchLimit + 1, Len(worklist)))

\* tweets_to_translate[:20]
batch(worklist) == SubSeq(worklist, 1, Min(BatchLimit, Len(worklist)))

\* line 38
texts_of(worklist) == [k \in 1..Len(batch(worklist)) |-> batch(worklist)[k].text]

\* lines 66-69: the first item with this id gets the translation; none: nothing
RECURSIVE first_with_id(_, _, _)
first_with_id(items, id, k) ==
    IF k > Len(items) THEN 0
    ELSE IF items[k].id = id THEN k
    ELSE first_with_id(items, id, k + 1)

\* mutant: an id without a record gets a new record
set_translation_or_create(items, id, translation) ==
    LET k == first_with_id(items, id, 1) IN
    IF k = 0 THEN Append(items, [id |-> id, translation |-> translation])
    ELSE [items EXCEPT ![k] = ("translation" :> translation) @@ items[k]]

set_translation(items, id, translation) ==
    LET k == first_with_id(items, id, 1) IN
    IF k = 0 THEN items
    ELSE [items EXCEPT ![k] = ("translation" :> translation) @@ items[k]]

\* mutant: the last segment is not used
update_one_stops_early(items, todo, segments, i) ==
    IF i < Len(segments)
    THEN set_translation(items, todo[i].id, clean_translation(segments[i]))
    ELSE items

\* mutant: the entries past the segments get the last segment
update_one_reuses_last(items, todo, segments, i) ==
    set_translation(items, todo[i].id,
                    clean_translation(segments[Min(i, Len(segments))]))

\* lines 59-69: the body of the loop for entry i
update_one(items, todo, segments, i) ==
    IF i <= Len(segments)
    THEN set_translation(items, todo[i].id, clean_translation(segments[i]))
    ELSE items

\* lines 58-69: for i, tweet in enumerate(tweets_to_translate[:20])
RECURSIVE update_loop(_, _, _, _)
update_loop(items, todo, segments, i) ==
    IF i > Len(todo) THEN items
    ELSE Bind(update_one(items, todo, segments, i),
              LAMBDA after : update_loop(after, todo, segments, i + 1))

update_items(items, worklist, segments) ==
    update_loop(items, batch(worklist), segments, 1)

(***************************************************************************)
(* The inputs of the Translation Patcher.                                  *)
(*                                                                         *)
(* A tweet collection is a block of uniform English tweets with ids of     *)
(* their own (none, or as many as one batch holds) followed by a few       *)
(* tweets drawn freely, ids repeating or not.  An analysis collection is a *)
(* few records drawn freely, followed by the records of the uniform block  *)
(* (or by none).  The text of a tweet and the note of an analysis record   *)
(* name their position, so that a change of order or of content shows.     *)
(***************************************************************************)
Ids == {1, 2}
Langs == {"en", "zh"}
OldTranslations == {<<>>, <<"x">>}
BlockSizes == {0, BatchLimit}
BlockId(j) == 100 + j

SeqsUpTo(S, n) == UNION {[1..m -> S] : m \in 0..n}

TweetChoices(n) == SeqsUpTo([id : Ids, lang : Langs], n)
ItemChoices(n) == SeqsUpTo([id : Ids, translation : OldTranslations], n)

MakeTweets(block, free) ==
    [k \in 1..(block + Len(free)) |->
        IF k <= block
        THEN [id |-> BlockId(k), lang |-> "en", text |-> <<ToString(k)>>]
        ELSE [id |-> free[k - block].id, lang |-> free[k - block].lang,
              text |-> <<ToString(k)>>]]

\* the record of the j-th block tweet: no translation key for an even j, an
\* empty translation for an odd one
MakeItems(free, block) ==
    [k \in 1..(Len(free) + block) |->
        IF k <= Len(free)
        THEN [id |-> free[k].id, translation |-> free[k].translation,
              note |-> ToString(k)]
        ELSE IF (k - Len(free)) % 2 = 0
             THEN [id |-> BlockId(k - Len(free)), note |-> ToString(k)]
             ELSE [id |-> BlockId(k - Len(free)), translation |-> <<>>,
                   note |-> ToString(k)]]

\* The answers of the service to a request of n texts.  The j-th segment
\* names j, so that the segment an entry receives shows.
Segment(style, j) ==
    CASE style = "plain" -> <<ToString(j)>>
      [] style = "numbered" -> <<"[", ToString(j), "]", " ", ToString(j)>>
      [] style = "open" -> <<"[", ToString(j)>>
      [] style = "blank" -> <<" ">>

AllStyles == {"plain", "numbered", "open", "blank"}

\* <<number of segments, style>> of the answers to n texts
Answers(mode, n) ==
    LET all == CASE mode = "any" ->
                      {<<n, style>> : style \in AllStyles}
                          \cup {<<n - 1, "plain">>, <<n + 1, "plain">>}
                 [] mode = "flaky" ->
                      {<<n, "plain">>, <<n, "blank">>, <<n - 1, "plain">>}
                 [] mode = "good" ->
                      {<<n, "plain">>, <<n, "numbered">>}
    IN {a \in all : a[1] >= 1}

Responses(mode, n) ==
    {join_blank([j \in 1..a[1] |-> Segment(a[2], j)]) : a \in Answers(mode, n)}

NoDoc == <<>>
NoMap == [x \in {} |-> 0]
NoPrev == [tweets_to_translate |-> <<>>, translations |-> <<>>]

(***************************************************************************)
(* Translation Patcher: the steps of the module body, one per effect on    *)
(* the world outside the process.                                          *)
(***************************************************************************)
ProcessStart ==
    /\ pc = "check_key"
    /\ raw = NoDoc
    /\ analyzed = NoDoc
    /\ analyzed_map = NoMap
    /\ tweets_to_translate = <<>>
    /\ texts = <<>>
    /\ translations = <<>>
    /\ events = <<>>
    /\ stdout = <<>>
    /\ exit_code = -1

Say(msg, n) == [msg |-> msg, n |-> n]

\* mutant: a missing key is reported and the run goes on
CheckKeyWarnsOnly ==
    /\ pc = "check_key"
    /\ stdout' = IF ~environ_key
                 THEN Append(stdout, Say("OPENAI_API_KEY not found in environment", 0))
                 ELSE stdout
    /\ events' = Append(events, "check_key")
    /\ pc' = "import"
    /\ UNCHANGED <<environ_key, openai_installed, service, raw_tweets_json,
                   analyze_output_json, run, prev, raw, analyzed, analyzed_map,
                   tweets_to_translate, texts, translations, exit_code>>
    /\ UNCHANGED <<clean_vars, logo_vars>>

\* lines 4-8
CheckKey ==
    /\ pc = "check_key"
    /\ IF ~environ_key
       THEN /\ stdout' = Append(stdout, Say("OPENAI_API_KEY not found in environment", 0))
            /\ events' = Append(events, "check_key")
            /\ exit_code' = 1
            /\ pc' = "exit"
       ELSE /\ events' = Append(events, "check_key")
            /\ pc' = "import"
            /\ UNCHANGED <<stdout, exit_code>>
    /\ UNCHANGED <<environ_key, openai_installed, service, raw_tweets_json,
                   analyze_output_json, run, prev, raw, analyzed, analyzed_map,
                   tweets_to_translate, texts, translations>>
    /\ UNCHANGED <<clean_vars, logo_vars>>

\* lines 10-15
ImportClient ==
    /\ pc = "import"
    /\ IF ~openai_installed
       THEN /\ stdout' = Append(stdout, Say("openai package not installed", 0))
            /\ exit_code' = 1
            /\ pc' = "exit"
       ELSE /\ pc' = "read"
            /\ UNCHANGED <<stdout, exit_code>>
    /\ UNCHANGED <<environ_key, openai_installed, service, raw_tweets_json,
                   analyze_output_json, run, prev, raw, analyzed, analyzed_map,
                   tweets_to_translate, texts, translations, events>>
    /\ UNCHANGED <<clean_vars, logo_vars>>

\* lines 17-21: json.load of a file gives the document the file holds
ReadFiles ==
    /\ pc = "read"
    /\ raw' = raw_tweets_json
    /\ analyzed' = analyze_output_json
    /\ events' = events \o <<"read_raw", "read_analyzed">>
    /\ pc' = "worklist"
    /\ UNCHANGED <<environ_key, openai_installed, service, raw_tweets_json,
                   analyze_output_json, run, prev, analyzed_map,
                   tweets_to_translate, texts, translations, stdout, exit_code>>
    /\ UNCHANGED <<clean_vars, logo_vars>>

\* lines 23-34
BuildWorklist ==
    /\ pc = "worklist"
    /\ analyzed_map' = build_analyzed_map(analyzed.items)
    /\ tweets_to_translate' =
           find_tweets_to_translate(raw.tweets, analyzed_map', analyzed.items)
    /\ stdout' = Append(stdout, Say("Found", Len(tweets_to_translate')))
    /\ events' = Append(events, "worklist")
    /\ pc' = "branch"
    /\ UNCHANGED <<environ_key, openai_installed, service, raw_tweets_json,
                   analyze_output_json, run, prev, raw, analyzed, texts,
                   translations, exit_code>>
    /\ UNCHANGED <<clean_vars, logo_vars>>

\* lines 37-55: one request carrying the texts of the batch; the answer is cut
\* at the blank lines
Request ==
    /\ pc = "branch"
    /\ tweets_to_translate # <<>>
    /\ texts' = texts_of(tweets_to_translate)
    /\ \E content \in Responses(service, Len(texts')) :
           translations' = split_blank(content)
    /\ events' = Append(events, "request")
    /\ pc' = "update"
    /\ UNCHANGED <<environ_key, openai_installed, service, raw_tweets_json,
                   analyze_output_json, run, prev, raw, analyzed, analyzed_map,
                   tweets_to_translate, stdout, exit_code>>
    /\ UNCHANGED <<clean_vars, logo_vars>>

\* lines 57-69
Update ==
    /\ pc = "update"
    /\ analyzed' = [analyzed EXCEPT
                      !.items = update_items(@, tweets_to_translate, translations)]
    /\ pc' = "save"
    /\ UNCHANGED <<environ_key, openai_installed, service, raw_tweets_json,
                   analyze_output_json, run, prev, raw, analyzed_map,
                   tweets_to_translate, texts, translations, events, stdout,
                   exit_code>>
    /\ UNCHANGED <<clean_vars, logo_vars>>

\* mutant: the document is not written
SaveSkipsDump ==
    /\ pc = "save"
    /\ events' = Append(events, "write")
    /\ stdout' = Append(stdout, Say("Translated", Len(batch(tweets_to_translate))))
    /\ exit_code' = 0
    /\ pc' = "exit"
    /\ UNCHANGED <<environ_key, openai_installed, service, raw_tweets_json,
                   analyze_output_json, run, prev, raw, analyzed, analyzed_map,
                   tweets_to_translate, texts, translations>>
    /\ UNCHANGED <<clean_vars, logo_vars>>

\* lines 71-75: json.dump writes the document held in memory
Save ==
    /\ pc = "save"
    /\ analyze_output_json' = analyzed
    /\ events' = Append(events, "write")
    /\ stdout' = Append(stdout, Say("Translated", Len(batch(tweets_to_translate))))
    /\ exit_code' = 0
    /\ pc' = "exit"
    /\ UNCHANGED <<environ_key, openai_installed, service, raw_tweets_json, run,
                   prev, raw, analyzed, analyzed_map, tweets_to_translate, texts,
                   translations>>
    /\ UNCHANGED <<clean_vars, logo_vars>>

\* lines 76-77
NoWork ==
    /\ pc = "branch"
    /\ tweets_to_translate = <<>>
    /\ stdout' = Append(stdout, Say("No English tweets need translation", 0))
    /\ exit_code' = 0
    /\ pc' = "exit"
    /\ UNCHANGED <<environ_key, openai_installed, service, raw_tweets_json,
                   analyze_output_json, run, prev, raw, analyzed, analyzed_map,
                   tweets_to_translate, texts, translations, events>>
    /\ UNCHANGED <<clean_vars, logo_vars>>

\* The script is invoked again: a new process, the files as the last one left
\* them.  prev keeps what the finished run computed.
NewProcess ==
    /\ pc = "exit"
    /\ prev' = [tweets_to_translate |-> tweets_to_translate,
                translations |-> translations]
    /\ pc' = "check_key"
    /\ raw' = NoDoc
    /\ analyzed' = NoDoc
    /\ analyzed_map' = NoMap
    /\ tweets_to_translate' = <<>>
    /\ texts' = <<>>
    /\ translations' = <<>>
    /\ events' = <<>>
    /\ stdout' = <<>>
    /\ exit_code' = -1
    /\ UNCHANGED <<environ_key, openai_installed, service, raw_tweets_json,
                   analyze_output_json>>
    /\ UNCHANGED <<clean_vars, logo_vars>>

\* invoked again, the invocations counted up to MaxRuns
Restart ==
    /\ run < MaxRuns
    /\ run' = run + 1
    /\ NewProcess

\* invoked again and again, the invocations not counted
Rerun ==
    /\ UNCHANGED run
    /\ NewProcess

(***************************************************************************)
(* Translation cleaning applied to one response segment.                   *)
(***************************************************************************)
CleanChars == {"[", "]", " ", NL, "x"}

\* lines 60-63 applied to seg; cleaned holds the result once there is one
CleanSegment ==
    /\ cleaned = <<>>
    /\ cleaned' = <<clean_translation(seg)>>
    /\ UNCHANGED seg
    /\ UNCHANGED <<patcher_vars, logo_vars>>

(***************************************************************************)
(* Logo Resizer.  An image is its size and its mode; a file of public/ is  *)
(* the size and mode of the image saved and the format it was saved in.    *)
(***************************************************************************)
NoImage == [size |-> <<0, 0>>, mode |-> "none"]
NoFiles == [x \in {} |-> 0]

\* mutant: the height follows the proportions of the source
resize_keeps_ratio(img, size) ==
    [size |-> <<size, (size * img.size[2]) \div img.size[1]>>, mode |-> img.mode]

\* lines 15-17
resize_square(img, size) == [size |-> <<size, size>>, mode |-> img.mode]

\* Image.save(public / name): the format follows the suffix unless given
save(files, img, name, format) ==
    (name :> [size |-> img.size, mode |-> img.mode, format |-> format]) @@ files

\* lines 21-23
MakePublic ==
    /\ lpc = "mkdir"
    /\ public_exists' = TRUE
    /\ lpc' = "open"
    /\ UNCHANGED <<logo_png, public_files, lrun, logo, sidebar, login,
                   favicon_16, favicon_32, apple_touch, saved>>
    /\ UNCHANGED <<patcher_vars, clean_vars>>

\* lines 25-27
OpenLogo ==
    /\ lpc = "open"
    /\ logo' = [size |-> logo_png.size, mode |-> "RGBA"]
    /\ lpc' = "sidebar"
    /\ UNCHANGED <<logo_png, public_exists, public_files, lrun, sidebar, login,
                   favicon_16, favicon_32, apple_touch, saved>>
    /\ UNCHANGED <<patcher_vars, clean_vars>>

\* lines 29-32
SaveSidebar ==
    /\ lpc = "sidebar"
    /\ sidebar' = resize_square(logo, 24)
    /\ public_files' = save(public_files, sidebar', "logo-24.png", "PNG")
    /\ saved' = Append(saved, "logo-24.png")
    /\ lpc' = "login"
    /\ UNCHANGED <<logo_png, public_exists, lrun, logo, login, favicon_16,
                   favicon_32, apple_touch>>
    /\ UNCHANGED <<patcher_vars, clean_vars>>

\* lines 34-37
SaveLogin ==
    /\ lpc = "login"
    /\ login' = resize_square(logo, 80)
    /\ public_files' = save(public_files, login', "logo-80.png", "PNG")
    /\ saved' = Append(saved, "logo-80.png")
    /\ lpc' = "favicons"
    /\ UNCHANGED <<logo_png, public_exists, lrun, logo, sidebar, favicon_16,
                   favicon_32, apple_touch>>
    /\ UNCHANGED <<patcher_vars, clean_vars>>

\* lines 39-42
ResizeFavicons ==
    /\ lpc = "favicons"
    /\ favicon_16' = resize_square(logo, 16)
    /\ favicon_32' = resize_square(logo, 32)
    /\ apple_touch' = resize_square(logo, 180)
    /\ lpc' = "save_16"
    /\ UNCHANGED <<logo_png, public_exists, public_files, lrun, logo, sidebar,
                   login, saved>>
    /\ UNCHANGED <<patcher_vars, clean_vars>>

\* line 44
SaveFavicon16 ==
    /\ lpc = "save_16"
    /\ public_files' = save(public_files, favicon_16, "favicon-16.png", "PNG")
    /\ saved' = Append(saved, "favicon-16.png")
    /\ lpc' = "save_32"
    /\ UNCHANGED <<logo_png, public_exists, lrun, logo, sidebar, login,
                   favicon_16, favicon_32, apple_touch>>
    /\ UNCHANGED <<patcher_vars, clean_vars>>

\* line 45
SaveFavicon32 ==
    /\ lpc = "save_32"
    /\ public_files' = save(public_files, favicon_32, "favicon-32.png", "PNG")
    /\ saved' = Append(saved, "favicon-32.png")
    /\ lpc' = "save_180"
    /\ UNCHANGED <<logo_png, public_exists, lrun, logo, sidebar, login,
                   favicon_16, favicon_32, apple_touch>>
    /\ UNCHANGED <<patcher_vars, clean_vars>>

\* line 46
SaveAppleTouch ==
    /\ lpc = "save_180"
    /\ public_files' = save(public_files, apple_touch, "apple-touch-icon.png", "PNG")
    /\ saved' = Append(saved, "apple-touch-icon.png")
    /\ lpc' = "save_ico"
    /\ UNCHANGED <<logo_png, public_exists, lrun, logo, sidebar, login,
                   favicon_16, favicon_32, apple_touch>>
    /\ UNCHANGED <<patcher_vars, clean_vars>>

\* lines 48-52
SaveIco ==
    /\ lpc = "save_ico"
    /\ public_files' = save(public_files, favicon_32, "favicon.ico", "ICO")
    /\ saved' = Append(saved, "favicon.ico")
    /\ lpc' = "done"
    /\ UNCHANGED <<logo_png, public_exists, lrun, logo, sidebar, login,
                   favicon_16, favicon_32, apple_touch>>
    /\ UNCHANGED <<patcher_vars, clean_vars>>

\* lines 55-56: main() is called again by a new process
LogoRestart ==
    /\ lpc = "done"
    /\ lrun < MaxRuns
    /\ lrun' = lrun + 1
    /\ lpc' = "mkdir"
    /\ logo' = NoImage
    /\ sidebar' = NoImage
    /\ login' = NoImage
    /\ favicon_16' = NoImage
    /\ favicon_32' = NoImage
    /\ apple_touch' = NoImage
    /\ saved' = <<>>
    /\ UNCHANGED <<logo_png, public_exists, public_files>>
    /\ UNCHANGED <<patcher_vars, clean_vars>>

(***************************************************************************)
(* Initial states and specifications.                                      *)
(***************************************************************************)
PatcherIdle ==
    /\ environ_key = TRUE
    /\ openai_installed = TRUE
    /\ service = "good"
    /\ raw_tweets_json = [tweets |-> <<>>]
    /\ analyze_output_json = [items |-> <<>>]
    /\ run = 1
    /\ prev = NoPrev
    /\ ProcessStart

CleanIdle ==
    /\ seg = <<>>
    /\ cleaned = <<>>

LogoStart ==
    /\ lpc = "mkdir"
    /\ lrun = 1
    /\ logo = NoImage
    /\ sidebar = NoImage
    /\ login = NoImage
    /\ favicon_16 = NoImage
    /\ favicon_32 = NoImage
    /\ apple_touch = NoImage
    /\ saved = <<>>

LogoIdle ==
    /\ logo_png = [size |-> <<1, 1>>, mode |-> "RGBA"]
    /\ public_exists = FALSE
    /\ public_files = NoFiles
    /\ LogoStart

\* the files of a run of the Translation Patcher
PatcherFiles(tweet_choices, item_choices) ==
    \E block \in BlockSizes, with_records \in BOOLEAN,
       free_tweets \in tweet_choices, free_items \in item_choices :
        /\ raw_tweets_json = [tweets |-> MakeTweets(block, free_tweets)]
        /\ analyze_output_json =
               [items |-> MakeItems(free_items, IF with_records THEN block ELSE 0)]

\* one run, any environment, any answer of the service
Init ==
    /\ environ_key \in BOOLEAN
    /\ openai_installed \in BOOLEAN
    /\ service = "any"
    /\ PatcherFiles(TweetChoices(MaxTweets), ItemChoices(MaxItems))
    /\ run = 1
    /\ prev = NoPrev
    /\ ProcessStart
    /\ CleanIdle
    /\ LogoIdle

Next ==
    \/ CheckKey
    \/ ImportClient
    \/ ReadFiles
    \/ BuildWorklist
    \/ Request
    \/ Update
    \/ Save
    \/ NoWork

Spec == Init /\ [][Next]_vars

\* runs in a row, the service answering in full or not
InitTwice ==
    /\ environ_key = TRUE
    /\ openai_installed = TRUE
    /\ service = "flaky"
    /\ PatcherFiles(TweetChoices(MaxTweetsTwice), ItemChoices(MaxItemsTwice))
    /\ run = 1
    /\ prev = NoPrev
    /\ ProcessStart
    /\ CleanIdle
    /\ LogoIdle

NextTwice ==
    \/ CheckKey
    \/ ImportClient
    \/ ReadFiles
    \/ BuildWorklist
    \/ Request
    \/ Update
    \/ Save
    \/ NoWork
    \/ Restart

SpecTwice == InitTwice /\ [][NextTwice]_vars

\* ids are unique keys (the data model of the two collections)
UniqueIds(s) == \A a, b \in 1..Len(s) : s[a].id = s[b].id => a = b

\* run again and again, the service answering every text with a non-empty
\* segment; a process that can take a step takes it
InitProgress ==
    /\ environ_key = TRUE
    /\ openai_installed = TRUE
    /\ service = "good"
    /\ PatcherFiles({t \in TweetChoices(MaxTweets) : UniqueIds(t)},
                    {r \in ItemChoices(MaxItems) : UniqueIds(r)})
    /\ run = 1
    /\ prev = NoPrev
    /\ ProcessStart
    /\ CleanIdle
    /\ LogoIdle

NextProgress ==
    \/ CheckKey
    \/ ImportClient
    \/ ReadFiles
    \/ BuildWorklist
    \/ Request
    \/ Update
    \/ Save
    \/ NoWork
    \/ Rerun

SpecProgress == InitProgress /\ [][NextProgress]_vars /\ WF_vars(NextProgress)

\* the cleaning of one segment
InitClean ==
    /\ seg \in SeqsUpTo(CleanChars, MaxSegLen)
    /\ cleaned = <<>>
    /\ PatcherIdle
    /\ LogoIdle

NextClean == CleanSegment

SpecClean == InitClean /\ [][NextClean]_vars

\* runs of the Logo Resizer
StaleFiles ==
    {NoFiles,
     "favicon.ico" :> [size |-> <<1, 1>>, mode |-> "RGBA", format |-> "ICO"],
     "robots.txt" :> [size |-> <<0, 0>>, mode |-> "none", format |-> "TXT"]}

InitLogo ==
    /\ logo_png \in [size : (1..MaxSrc) \X (1..MaxSrc), mode : {"RGBA", "RGB"}]
    /\ public_exists \in BOOLEAN
    /\ public_files \in (IF public_exists THEN StaleFiles ELSE {NoFiles})
    /\ LogoStart
    /\ PatcherIdle
    /\ CleanIdle

NextLogo ==
    \/ MakePublic
    \/ OpenLogo
    \/ SaveSidebar
    \/ SaveLogin
    \/ ResizeFavicons
    \/ SaveFavicon16
    \/ SaveFavicon32
    \/ SaveAppleTouch
    \/ SaveIco
    \/ LogoRestart

SpecLogo == InitLogo /\ [][NextLogo]_vars

(***************************************************************************)
(* Vocabulary of the properties.  These say what is expected, without the  *)
(* operators the steps compute with.                                       *)
(***************************************************************************)
Range(f) == {f[k] : k \in DOMAIN f}

\* positions of the records carrying this id
RecordsOf(items, id) == {k \in 1..Len(items) : items[k].id = id}

Lowest(S) == CHOOSE k \in S : \A j \in S : k <= j
Highest(S) == CHOOSE k \in S : \A j \in S : k >= j

HasNoTranslation(item) ==
    "translation" \notin DOMAIN item \/ item.translation = <<>>

\* the tweet at position k is English and the record looked up for it (where
\* several carry its id, the last) is missing or has no translation
Eligible(tweets, items, k) ==
    /\ tweets[k].lang = "en"
    /\ \/ RecordsOf(items, tweets[k].id) = {}
       \/ HasNoTranslation(items[Highest(RecordsOf(items, tweets[k].id))])

EligiblePositions(tweets, items) ==
    {k \in 1..Len(tweets) : Eligible(tweets, items, k)}

\* the i-th position of S, counted from the lowest
Nth(S, i) == CHOOSE k \in S : Cardinality({j \in S : j <= k}) = i

\* two records agree on every key but translation
SameButTranslation(a, b) ==
    /\ DOMAIN a \ {"translation"} = DOMAIN b \ {"translation"}
    /\ \A key \in DOMAIN a \ {"translation"} : a[key] = b[key]

\* two collections hold the same records in the same order, translations aside
SameRecords(old, new) ==
    /\ Len(new) = Len(old)
    /\ \A k \in 1..Len(old) : SameButTranslation(old[k], new[k])

\* the text between the first and the last character that is no whitespace
Trimmed(s) ==
    LET solid == {k \in 1..Len(s) : s[k] \notin Whitespace} IN
    IF solid = {} THEN <<>> ELSE SubSeq(s, Lowest(solid), Highest(solid))

\* what cleaning makes of a segment
Cleaned(s) ==
    LET c == Trimmed(s) IN
    IF c # <<>> /\ c[1] = "[" /\ (\E k \in 1..Len(c) : c[k] = "]")
    THEN Trimmed(SubSeq(c, Lowest({k \in 1..Len(c) : c[k] = "]"}) + 1, Len(c)))
    ELSE c

\* the record the i-th batch entry addresses: the first with its id, 0 if none
Addressed(items, todo, i) ==
    IF RecordsOf(items, todo[i].id) = {} THEN 0
    ELSE Lowest(RecordsOf(items, todo[i].id))

\* the batch entries, among the first m, that address record r
Senders(items, todo, m, r) ==
    {i \in 1..Min(m, Len(todo)) : Addressed(items, todo, i) = r}

TheBatch == SubSeq(tweets_to_translate, 1, Len(texts))
OnDisk == analyze_output_json.items
Updated == pc = "save"

(***************************************************************************)
(* C1.  The batch sent for translation is exactly the first min(20, E) of  *)
(* the E eligible tweets, in stored order: a tweet is eligible iff its     *)
(* lang is "en" and its analysis record is missing or has an absent or     *)
(* empty translation.  No other tweet is in the batch.                     *)
(***************************************************************************)
C1_BatchIsPrefixOfEligible ==
    "request" \in Range(events) /\ "write" \notin Range(events) =>
        LET E == EligiblePositions(raw_tweets_json.tweets, OnDisk) IN
        /\ Len(texts) = Min(20, Cardinality(E))
        /\ \A i \in 1..Len(texts) :
               texts[i] = raw_tweets_json.tweets[Nth(E, i)].text

\* more than 20 tweets are eligible and the first 20 were sent
C1_Witness ==
    /\ "request" \in Range(events) /\ "write" \notin Range(events)
    /\ Cardinality(EligiblePositions(raw_tweets_json.tweets, OnDisk)) > 20
    /\ Len(texts) = 20

(***************************************************************************)
(* C2.  Idempotence as claimed: run twice in a row, nothing added between  *)
(* the runs, the second run computes an empty worklist, writes nothing and *)
(* reports zero work.                                                      *)
(***************************************************************************)
ReportsNoWork ==
    /\ tweets_to_translate = <<>>
    /\ "request" \notin Range(events)
    /\ "write" \notin Range(events)
    /\ stdout[1] = Say("Found", 0)
    /\ pc = "exit" =>
           /\ stdout = <<Say("Found", 0), Say("No English tweets need translation", 0)>>
           /\ exit_code = 0

C2_SecondRunIdle ==
    run = 2 /\ "worklist" \in Range(events) => ReportsNoWork

(***************************************************************************)
(* C2 as amended.  When the run before had a worklist of at most 20        *)
(* tweets, each with exactly one analysis record, and the service gave     *)
(* each of them a segment that cleans to a non-empty text, the next run    *)
(* computes an empty worklist, writes nothing and reports zero work.       *)
(***************************************************************************)
PrevComplete ==
    LET w == prev.tweets_to_translate
        t == prev.translations
    IN /\ Len(w) <= 20
       /\ Len(t) >= Len(w)
       /\ \A i \in 1..Len(w) :
              /\ Cardinality(RecordsOf(OnDisk, w[i].id)) = 1
              /\ Cleaned(t[i]) # <<>>

C2_NextRunIdleAfterCompleteRun ==
    run >= 2 /\ "worklist" \in Range(events) /\ PrevComplete => ReportsNoWork

\* a second run ended idle after a first run that translated a worklist in full
C2_Witness ==
    /\ run = 2
    /\ pc = "exit"
    /\ PrevComplete
    /\ prev.tweets_to_translate # <<>>
    /\ ReportsNoWork

(***************************************************************************)
(* C3.  As claimed: a worklist of K tweets, 1 <= K <= 20, and a response   *)
(* of exactly K segments leave the K addressed analysis records with a     *)
(* non-empty translation and every other record unchanged.                 *)
(***************************************************************************)
FullResponse ==
    /\ Updated
    /\ Len(tweets_to_translate) \in 1..20
    /\ Len(translations) = Len(tweets_to_translate)

AddressedFilledOthersKept ==
    \A r \in 1..Len(OnDisk) :
        IF Senders(OnDisk, TheBatch, Len(TheBatch), r) # {}
        THEN /\ "translation" \in DOMAIN analyzed.items[r]
             /\ analyzed.items[r].translation # <<>>
        ELSE analyzed.items[r] = OnDisk[r]

C3_AllFilled ==
    FullResponse => Len(analyzed.items) = Len(OnDisk) /\ AddressedFilledOthersKept

(***************************************************************************)
(* C3 as amended.  The same, for a response whose K segments each clean to *)
(* a non-empty text: a segment that is blank, or only a "[..]" prefix,     *)
(* leaves its record with an empty translation.                            *)
(***************************************************************************)
SegmentsSolid ==
    \A i \in 1..Len(translations) : Cleaned(translations[i]) # <<>>

C3_AllFilledBySolidSegments ==
    FullResponse /\ SegmentsSolid =>
        Len(analyzed.items) = Len(OnDisk) /\ AddressedFilledOthersKept

\* K solid segments arrived and a record that had no translation has one now
C3_Witness ==
    /\ FullResponse
    /\ SegmentsSolid
    /\ \E r \in 1..Len(OnDisk) :
           /\ HasNoTranslation(OnDisk[r])
           /\ ~HasNoTranslation(analyzed.items[r])

(***************************************************************************)
(* C4.  Every analysis record whose translation a run sets has an id that  *)
(* belongs to exactly one tweet, that tweet is English, and the record had *)
(* no translation when the worklist was built: a translation that was      *)
(* already there is never overwritten, ids repeating or not.               *)
(***************************************************************************)
C4_OnlyUntranslatedRecordsSet ==
    Updated =>
        \A r \in 1..Len(OnDisk) :
            analyzed.items[r] # OnDisk[r] =>
                /\ Cardinality({k \in 1..Len(raw.tweets) :
                                   raw.tweets[k].id = OnDisk[r].id}) = 1
                /\ \A k \in 1..Len(raw.tweets) :
                       raw.tweets[k].id = OnDisk[r].id => raw.tweets[k].lang = "en"
                /\ HasNoTranslation(OnDisk[r])

(***************************************************************************)
(* C5.  A response of M segments, M smaller than the batch, raises no      *)
(* error: the records of the first M batch entries get their segments, in  *)
(* batch order (entry i gets segment i, cleaned), the records the other    *)
(* entries address are unchanged, and the analysis file is still written.  *)
(***************************************************************************)
ShortResponse == "request" \in Range(events) /\ Len(translations) < Len(texts)

C5_ShortResponseFillsFirstM ==
    /\ ShortResponse /\ Updated =>
           /\ Len(analyzed.items) = Len(OnDisk)
           /\ \A r \in 1..Len(OnDisk) :
                  LET from == Senders(OnDisk, TheBatch, Len(translations), r) IN
                  IF from = {} THEN analyzed.items[r] = OnDisk[r]
                  ELSE /\ "translation" \in DOMAIN analyzed.items[r]
                       /\ analyzed.items[r].translation =
                              Cleaned(translations[Highest(from)])
    /\ ShortResponse /\ pc = "exit" =>
           /\ "write" \in Range(events)
           /\ exit_code = 0
           /\ analyze_output_json = analyzed

\* fewer segments than entries: an entry past the segments addresses a
\* record, which is as it was, and a record before it was set
C5_Witness ==
    /\ ShortResponse /\ Updated
    /\ \E i \in (Len(translations) + 1)..Len(TheBatch) :
           /\ Addressed(OnDisk, TheBatch, i) # 0
           /\ analyzed.items[Addressed(OnDisk, TheBatch, i)]
                  = OnDisk[Addressed(OnDisk, TheBatch, i)]
    /\ \E r \in 1..Len(OnDisk) : analyzed.items[r] # OnDisk[r]

(***************************************************************************)
(* C6.  As claimed: a run of main() that completes has written exactly     *)
(* seven distinct files into the output directory.                         *)
(***************************************************************************)
C6_SevenFiles ==
    lpc = "done" => Cardinality(Range(saved)) = 7

(***************************************************************************)
(* C6 as amended.  A run of main() that completes has written exactly six  *)
(* distinct files into the output directory: rasters of 24, 80, 16, 32 and *)
(* 180 pixels square and one icon-format file made from the 32-pixel       *)
(* bitmap.  A second run writes the same names with the same dimensions.   *)
(***************************************************************************)
Square(n) == <<n, n>>

ExpectedFiles ==
    [name \in {"logo-24.png", "logo-80.png", "favicon-16.png", "favicon-32.png",
               "apple-touch-icon.png", "favicon.ico"} |->
        CASE name = "logo-24.png" -> [size |-> Square(24), format |-> "PNG"]
          [] name = "logo-80.png" -> [size |-> Square(80), format |-> "PNG"]
          [] name = "favicon-16.png" -> [size |-> Square(16), format |-> "PNG"]
          [] name = "favicon-32.png" -> [size |-> Square(32), format |-> "PNG"]
          [] name = "apple-touch-icon.png" -> [size |-> Square(180), format |-> "PNG"]
          [] name = "favicon.ico" -> [size |-> Square(32), format |-> "ICO"]]

C6_SixFiles ==
    lpc = "done" =>
        /\ Len(saved) = 6
        /\ Range(saved) = DOMAIN ExpectedFiles
        /\ public_exists
        /\ \A name \in DOMAIN ExpectedFiles :
               /\ name \in DOMAIN public_files
               /\ public_files[name].size = ExpectedFiles[name].size
               /\ public_files[name].format = ExpectedFiles[name].format
               /\ public_files[name].mode = "RGBA"
        /\ public_files["favicon.ico"].size = favicon_32.size

\* a second run over a source that is not square has completed
C6_Witness ==
    /\ lpc = "done"
    /\ lrun = 2
    /\ logo_png.size[1] # logo_png.size[2]
    /\ Len(saved) = 6

(***************************************************************************)
(* C7.  Cleaning trims the segment; if the trimmed text begins with "["    *)
(* and contains a "]", the result is the text after the first "]", trimmed *)
(* again; otherwise it is the trimmed text.  "[3] ab" gives "ab", "ab"     *)
(* gives "ab", "[unterminated" is left as it is; cleaning never fails.     *)
(***************************************************************************)
C7_Cleaning ==
    /\ cleaned # <<>> =>
           LET t == Trimmed(seg)
               closing == {k \in 1..Len(t) : t[k] = "]"}
           IN /\ Len(cleaned) = 1
              /\ cleaned[1] \in Seq(CleanChars)
              /\ IF t # <<>> /\ t[1] = "[" /\ closing # {}
                 THEN cleaned[1] = Trimmed(SubSeq(t, Lowest(closing) + 1, Len(t)))
                 ELSE cleaned[1] = t
    /\ clean_translation(<<"[", "3", "]", " ", "a", "b">>) = <<"a", "b">>
    /\ clean_translation(<<"a", "b">>) = <<"a", "b">>
    /\ clean_translation(<<"[", "u", "n", "t">>) = <<"[", "u", "n", "t">>

\* a numbering prefix with whitespace around it was removed
C7_Witness ==
    /\ cleaned # <<>>
    /\ seg = <<" ", "[", "]", "x">>
    /\ cleaned[1] = <<"x">>

(***************************************************************************)
(* C8.  In every run: credential check, read of both files, worklist, at   *)
(* most one request, at most one overwrite, in this order.  A missing      *)
(* credential ends the run with exit code 1 before any read; an empty      *)
(* worklist ends it successfully with no request and no write; request and *)
(* overwrite happen once each, in this order, exactly when the credential  *)
(* is present and the worklist is non-empty.                               *)
(***************************************************************************)
FullRun == <<"check_key", "read_raw", "read_analyzed", "worklist", "request", "write">>

C9_Frame ==
    [][/\ raw_tweets_json' = raw_tweets_json
       /\ SameRecords(analyze_output_json.items, analyze_output_json'.items)
       /\ pc = "update" => SameRecords(analyzed.items, analyzed'.items)
       /\ pc = "update" => SameRecords(analyze_output_json.items, analyzed'.items)
       /\ pc = "update" => pc' = "save"
       /\ pc = "save" => analyze_output_json' = analyzed /\ exit_code' = 0]_vars

\* the file was written after a segment arrived for a tweet without a record
C9_Witness ==
    /\ pc = "exit"
    /\ "write" \in Range(events)
    /\ \E i \in 1..Min(Len(texts), Len(translations)) :
           RecordsOf(OnDisk, tweets_to_translate[i].id) = {}
    /\ \E r \in 1..Len(OnDisk) : ~HasNoTranslation(OnDisk[r])

(***************************************************************************)
(* C10.  Run again and again on an unchanged tweet collection, the service *)
(* answering each text with a non-empty segment, every eligible English    *)
(* tweet that has an analysis record eventually has a non-empty            *)
(* translation: the cut at 20 starves no tweet.                            *)
(***************************************************************************)
Waiting(k) ==
    /\ RecordsOf(OnDisk, raw_tweets_json.tweets[k].id) # {}
    /\ Eligible(raw_tweets_json.tweets, OnDisk, k)

SomeWaiting == \E k \in 1..Len(raw_tweets_json.tweets) : Waiting(k)

\* a translation, once there, stays (ids are unique and the service leaves no
\* segment empty), so that every waiting tweet is translated in the end iff
\* a state without waiting tweets is reached
C10_NoStarvation == SomeWaiting ~> ~SomeWaiting

====
